---- MODULE Spec2Model ----
(***************************************************************************)
(* Model of the log-analyzer agent (log_analyzer/main.py), its tools       *)
(* (tools/log_reader.py), the tool node built in model_loader.py and the   *)
(* evaluation harness lock (evaluate.py).                                  *)
(*                                                                         *)
(* Text is modelled as a sequence of word tokens; "x in text" of the code  *)
(* is the membership of the token in the sequence.                         *)
(***************************************************************************)
EXTENDS Integers, Sequences, FiniteSets, TLC

VARIABLES
    pc,             \* graph node about to run: START, AGENT, TOOLS, SUMMARIZE, END
    status,         \* "running", "failed" (an exception left app.stream), "done" (run_agent returned)
    steps,          \* number of node executions completed
    messages,       \* state["messages"], the conversation
    decision,       \* last value returned by router ("none" before the first)
    lastInput,      \* message sequence given to the last model.invoke
    lastResponse,   \* message returned by the last successful model.invoke
    invokes,        \* number of model.invoke calls made
    done,           \* tool calls of the latest TOOLS step that completed, in completion order
    final_messages, \* run_agent: messages collected from the streamed updates
    output,         \* run_agent: returned "output" (NoOutput until it returns)
    nextId,         \* last message id handed out
    nextCall,       \* last tool-call id handed out
    dirValid,       \* LOG_DIR names an existing directory
    dirEntries,     \* names of the files in that directory
    lpc,            \* run_evaluation: position of each process
    fd,             \* run_evaluation: inode behind each process's lock_file (0: none)
    pathInode,      \* inode that lock_path names (0: no such file)
    flockOwner,     \* inode -> process holding the flock on it (0: unlocked)
    nextInode       \* last inode created

graphVars == <<pc, status, steps, messages, decision, lastInput, lastResponse,
               invokes, done, final_messages, output, nextId, nextCall, dirValid, dirEntries>>
lockVars == <<lpc, fd, pathInode, flockOwner, nextInode>>
vars == <<pc, status, steps, messages, decision, lastInput, lastResponse,
          invokes, done, final_messages, output, nextId, nextCall, dirValid, dirEntries,
          lpc, fd, pathInode, flockOwner, nextInode>>

-----------------------------------------------------------------------------
(* Bounds *)

MaxMsgs == 7
MaxCalls == 2
MaxConv == 8
NumProcs == 3
MaxInodes == 3
MaxLeft == 4

-----------------------------------------------------------------------------
(* Messages *)

NoOutput == <<"<none>">>
NoMessage == [type |-> "none", content |-> <<>>, tool_calls |-> <<>>, id |-> 0, tool_call_id |-> 0]

Msg(t, c, calls, i, cid) ==
    [type |-> t, content |-> c, tool_calls |-> calls, id |-> i, tool_call_id |-> cid]

SystemMessage(c) == Msg("system", c, <<>>, 0, 0)
HumanMessage(c) == Msg("human", c, <<>>, 0, 0)
AIMessage(c, calls, i) == Msg("ai", c, calls, i, 0)
ToolMessage(c, cid) == Msg("tool", c, <<>>, 0, cid)

Contains(text, word) == \E i \in DOMAIN text : text[i] = word

SYSTEM_PROMPT == SystemMessage(<<"You", "are", "a", "log", "analysis", "agent">>)

summary_prompt ==
    HumanMessage(<<"Provide", "a", "structured", "log", "analysis", "summary",
                   "###", "Conclusion", "###", "1.", "Root", "Cause",
                   "###", "2.", "Timestamp", "###", "3.", "Suggested", "Fix">>)

Query == <<"Analyze", "the", "logs">>

-----------------------------------------------------------------------------
(* Tools: tools/log_reader.py *)

LOG_DIR == "./logs"

\* The file system around the log directory.  A path is the sequence of its
\* components from the root; the process runs in /srv, so LOG_DIR is /srv/logs.
Cwd == <<"srv">>
LogDirPath == <<"srv", "logs">>
NoPath == <<"<enoent>">>
OutsideFiles == { <<"srv", "secret.txt">>, <<"etc", "passwd">> }

Dirs(dirOk) ==
    { <<>>, <<"srv">>, <<"etc">> } \cup (IF dirOk THEN {LogDirPath} ELSE {})

Files_all_present(dirOk, entries) ==
    OutsideFiles \cup { Append(LogDirPath, e) : e \in entries \cup {"missing.log"} }

Files(dirOk, entries) ==
    OutsideFiles \cup (IF dirOk THEN { Append(LogDirPath, e) : e \in entries } ELSE {})

\* the filename argument as pathlib parses it
PathOf(filename) ==
    CASE filename = "app.log" -> [abs |-> FALSE, parts |-> <<"app.log">>]
      [] filename = "missing.log" -> [abs |-> FALSE, parts |-> <<"missing.log">>]
      [] filename = "../secret.txt" -> [abs |-> FALSE, parts |-> <<"..", "secret.txt">>]
      [] filename = "../logs/app.log" -> [abs |-> FALSE, parts |-> <<"..", "logs", "app.log">>]
      [] filename = "/etc/passwd" -> [abs |-> TRUE, parts |-> <<"etc", "passwd">>]
      [] filename = "" -> [abs |-> FALSE, parts |-> <<>>]

\* a bare file name: one component, no directory part
PlainName(filename) ==
    LET p == PathOf(filename)
    IN  ~p.abs /\ Len(p.parts) = 1 /\ p.parts[1] \notin {".", ".."}

\* Path(LOG_DIR) / filename: an absolute filename replaces the base
JoinPath(base, p) == IF p.abs THEN [abs |-> TRUE, parts |-> p.parts]
                     ELSE [abs |-> FALSE, parts |-> base \o p.parts]

\* the operating system follows the components one by one; ".." leaves a directory
RECURSIVE Walk(_, _, _)
Walk(cur, parts, dirs) ==
    IF parts = <<>> THEN cur
    ELSE IF cur \notin dirs THEN NoPath
    ELSE LET c == Head(parts)
         IN  Walk(IF c = ".."
                  THEN (IF cur = <<>> THEN <<>> ELSE SubSeq(cur, 1, Len(cur) - 1))
                  ELSE Append(cur, c),
                  Tail(parts), dirs)

\* the file that open(Path(LOG_DIR) / filename) reaches
ReadTarget(filename, dirOk) ==
    LET path == JoinPath(<<"logs">>, PathOf(filename))
    IN  Walk(IF path.abs THEN <<>> ELSE Cwd, path.parts, Dirs(dirOk))

InsideLogDir(path) ==
    /\ Len(path) > Len(LogDirPath)
    /\ SubSeq(path, 1, Len(LogDirPath)) = LogDirPath

\* the lines of a file
FileText(path) ==
    IF path = <<"srv", "secret.txt">> THEN <<"password", "hunter2">>
    ELSE IF path = <<"etc", "passwd">> THEN <<"root:x:0:0">>
    ELSE <<"2024-01-01T00:00:00Z", "ERROR", "Traceback">>

\* "".join(deque(f, maxlen=n)) for n >= 0
LastN(lines, n) ==
    IF n >= Len(lines) THEN lines
    ELSE SubSeq(lines, Len(lines) - n + 1, Len(lines))

\* path.glob("*.log")
LogNames == {"app.log", "worker.log"}

RECURSIVE SetToSeq(_)
SetToSeq(S) ==
    IF S = {} THEN <<>>
    ELSE LET x == CHOOSE x \in S : TRUE IN <<x>> \o SetToSeq(S \ {x})

list_log_files_all_entries(dirOk, entries, raised) ==
    IF raised THEN << <<"Error", "listing", "logs">> >>
    ELSE IF ~dirOk THEN << <<"Error", LOG_DIR, "is", "not", "a", "valid", "directory">> >>
    ELSE LET names == SetToSeq(entries)
         IN  [i \in DOMAIN names |-> <<names[i]>>]

\* list_log_files(): the returned list, each element a text;
\* raised is an exception inside the try block
list_log_files(dirOk, entries, raised) ==
    IF raised THEN << <<"Error", "listing", "logs">> >>
    ELSE IF ~dirOk THEN << <<"Error", LOG_DIR, "is", "not", "a", "valid", "directory">> >>
    ELSE LET names == SetToSeq(entries \cap LogNames)
         IN  [i \in DOMAIN names |-> <<names[i]>>]

read_log_file_bare_cause(filename, last_n_lines, dirOk, entries, raised) ==
    LET target == ReadTarget(filename, dirOk)
    IN  IF raised THEN <<"Errno", filename>>
        ELSE IF target \notin (Files(dirOk, entries) \cup Dirs(dirOk))
             THEN <<"Error", "File", filename, "not", "found", "in", LOG_DIR>>
        ELSE IF target \in Dirs(dirOk)
             THEN <<"Is", "a", "directory", filename>>
        ELSE IF last_n_lines < 0
             THEN <<"maxlen", "must", "be", "non-negative">>
        ELSE LastN(FileText(target), last_n_lines)

\* read_log_file(filename, last_n_lines): raised is an OSError inside the try block
read_log_file(filename, last_n_lines, dirOk, entries, raised) ==
    LET target == ReadTarget(filename, dirOk)
    IN  IF raised THEN <<"Error", "reading", "log", "Errno", filename>>
        ELSE IF target \notin (Files(dirOk, entries) \cup Dirs(dirOk))
             THEN <<"Error", "File", filename, "not", "found", "in", LOG_DIR>>
        ELSE IF target \in Dirs(dirOk)
             THEN <<"Error", "reading", "log", "Is", "a", "directory", filename>>
        ELSE IF last_n_lines < 0
             THEN <<"Error", "reading", "log", "maxlen", "must", "be", "non-negative">>
        ELSE LastN(FileText(target), last_n_lines)

\* tools = [read_log_file, list_log_files]
tools == {"read_log_file", "list_log_files"}

-----------------------------------------------------------------------------
(* What the model backend may answer *)

ModelContents == { <<"no", "crash", "found">>, <<"found", "a", "Traceback">> }

\* last_n_lines = 20 unless the call gives it
DefaultLastN == 20

CallVariants ==
    { [name |-> "list_log_files", filename |-> "", last_n_lines |-> DefaultLastN],
      [name |-> "read_log_file", filename |-> "app.log", last_n_lines |-> DefaultLastN],
      [name |-> "delete_logs", filename |-> "", last_n_lines |-> DefaultLastN] }

CallSeqs == UNION { [1..n -> CallVariants] : n \in 0..MaxCalls }

\* a response is plain text, or tool calls next to text that mentions a Traceback
CallingContent == <<"reading", "the", "Traceback">>

ModelResponses ==
    { [content |-> c, calls |-> <<>>] : c \in ModelContents }
    \cup { [content |-> CallingContent, calls |-> cs] : cs \in CallSeqs \ {<<>>} }

\* a response that follows the format the summary prompt asks for
StructuredReport ==
    <<"###", "Conclusion", "crash", "in", "app.log",
      "###", "1.", "Root", "Cause", "disk", "full",
      "###", "2.", "Timestamp", "2024-01-01T00:00:00Z",
      "###", "3.", "Suggested", "Fix", "free", "space">>

\* what the backend may answer to the summary prompt
SummaryResponses ==
    ModelResponses \cup { [content |-> StructuredReport, calls |-> <<>>] }

\* the tool calls of one response, with the ids the backend gives them
WithIds(cs, n) ==
    [i \in 1..Len(cs) |-> [id |-> n + i, name |-> cs[i].name, filename |-> cs[i].filename,
                            last_n_lines |-> cs[i].last_n_lines]]

-----------------------------------------------------------------------------
(* langgraph add_messages reducer, the annotation of AgentState.messages *)

RECURSIVE AssignIds(_, _)
AssignIds(seq, n) ==
    IF seq = <<>> THEN <<>>
    ELSE IF Head(seq).id = 0
         THEN <<[Head(seq) EXCEPT !.id = n + 1]>> \o AssignIds(Tail(seq), n + 1)
         ELSE <<Head(seq)>> \o AssignIds(Tail(seq), n)

Unassigned(seq) == Cardinality({i \in DOMAIN seq : seq[i].id = 0})

RECURSIVE Merge(_, _)
Merge(left, right) ==
    IF right = <<>> THEN left
    ELSE LET m == Head(right)
             hit == {i \in DOMAIN left : left[i].id = m.id}
         IN  IF hit # {}
             THEN Merge([left EXCEPT ![CHOOSE i \in hit : TRUE] = m], Tail(right))
             ELSE Merge(Append(left, m), Tail(right))

add_messages_overwrite(left, right, n) == AssignIds(right, n)

add_messages(left, right, n) == Merge(left, AssignIds(right, n))

-----------------------------------------------------------------------------
(* Nodes and edges: main.py *)

call_model_input(msgs) ==
    IF msgs = <<>> \/ msgs[1].type # "system"
    THEN <<SYSTEM_PROMPT>> \o msgs
    ELSE msgs

summarize_input_no_prompt(msgs) == msgs

summarize_input(msgs) == msgs \o <<summary_prompt>>

RoundCap == 6

router_marker_first(msgs) ==
    LET last_msg == msgs[Len(msgs)]
    IN  IF Contains(last_msg.content, "Traceback") /\ Len(msgs) < RoundCap THEN "agent"
        ELSE IF last_msg.tool_calls # <<>> THEN "tools"
        ELSE "summarize"

router_cap_short(msgs) ==
    LET last_msg == msgs[Len(msgs)]
    IN  IF last_msg.tool_calls # <<>> THEN "tools"
        ELSE IF Contains(last_msg.content, "Traceback") /\ Len(msgs) + 1 < RoundCap THEN "agent"
        ELSE "summarize"

router_cap_inclusive(msgs) ==
    LET last_msg == msgs[Len(msgs)]
    IN  IF last_msg.tool_calls # <<>> THEN "tools"
        ELSE IF Contains(last_msg.content, "Traceback") /\ Len(msgs) <= RoundCap THEN "agent"
        ELSE "summarize"

router_cap_on_tools(msgs) ==
    LET last_msg == msgs[Len(msgs)]
    IN  IF last_msg.tool_calls # <<>> /\ Len(msgs) < RoundCap THEN "tools"
        ELSE IF Contains(last_msg.content, "Traceback") /\ Len(msgs) < RoundCap THEN "agent"
        ELSE "summarize"

router_no_cap(msgs) ==
    LET last_msg == msgs[Len(msgs)]
    IN  IF last_msg.tool_calls # <<>> THEN "tools"
        ELSE IF Contains(last_msg.content, "Traceback") THEN "agent"
        ELSE "summarize"

router(msgs) ==
    LET last_msg == msgs[Len(msgs)]
    IN  IF last_msg.tool_calls # <<>> THEN "tools"
        ELSE IF Contains(last_msg.content, "Traceback") /\ Len(msgs) < RoundCap THEN "agent"
        ELSE "summarize"

\* node names given to workflow.add_node
NodeOf(name) ==
    CASE name = "agent" -> "AGENT"
      [] name = "tools" -> "TOOLS"
      [] name = "summarize" -> "SUMMARIZE"

edge_tools_to_summarize(node) ==
    CASE node = "START" -> "AGENT"
      [] node = "TOOLS" -> "SUMMARIZE"
      [] node = "SUMMARIZE" -> "END"

\* workflow.add_edge
edge(node) ==
    CASE node = "START" -> "AGENT"
      [] node = "TOOLS" -> "AGENT"
      [] node = "SUMMARIZE" -> "END"

\* json.dumps of a list of texts
RECURSIVE JoinComma(_)
JoinComma(list) ==
    IF list = <<>> THEN <<>>
    ELSE IF Len(list) = 1 THEN list[1]
    ELSE list[1] \o <<",">> \o JoinComma(Tail(list))

json_dumps(list) == <<"[">> \o JoinComma(list) \o <<"]">>

\* ToolNode: the content of the result of one tool call
RunTool(call, dirOk, entries, raised) ==
    IF call.name \notin tools
    THEN <<"Error", call.name, "is", "not", "a", "valid", "tool">>
    ELSE IF call.name = "list_log_files"
         THEN json_dumps(list_log_files(dirOk, entries, raised))
    ELSE read_log_file(call.filename, call.last_n_lines, dirOk, entries, raised)

ToolNodeOutputs_completion_order(calls, completed) ==
    [k \in 1..Len(calls) |->
        ToolMessage(completed[k].content, calls[completed[k].idx].id)]

ToolNodeOutputs_first_id(calls, completed) ==
    [i \in 1..Len(calls) |->
        LET k == CHOOSE k \in DOMAIN completed : completed[k].idx = i
        IN  ToolMessage(completed[k].content, calls[1].id)]

\* ToolNode: the messages of one TOOLS step, one per call, in call order
ToolNodeOutputs(calls, completed) ==
    [i \in 1..Len(calls) |->
        LET k == CHOOSE k \in DOMAIN completed : completed[k].idx = i
        IN  ToolMessage(completed[k].content, calls[i].id)]

PendingCalls == messages[Len(messages)].tool_calls

-----------------------------------------------------------------------------
(* The run of the graph, as driven by run_agent *)

GraphInit ==
    /\ pc = "START"
    /\ status = "running"
    /\ steps = 0
    /\ messages = <<>>
    /\ decision = "none"
    /\ lastInput = <<>>
    /\ lastResponse = NoMessage
    /\ invokes = 0
    /\ done = <<>>
    /\ final_messages = <<>>
    /\ output = NoOutput
    /\ nextId = 0
    /\ nextCall = 0

LockIdle ==
    /\ lpc = [p \in 1..NumProcs |-> "idle"]
    /\ fd = [p \in 1..NumProcs |-> 0]
    /\ pathInode = 0
    /\ flockOwner = [i \in 1..MaxInodes |-> 0]
    /\ nextInode = 0

Init ==
    /\ GraphInit
    /\ dirValid \in BOOLEAN
    /\ dirEntries = IF dirValid THEN {"app.log"} ELSE {}
    /\ LockIdle

\* app.stream(inputs): the input is written through the reducer, then START -> agent
Start ==
    /\ pc = "START" /\ status = "running"
    /\ messages' = add_messages(messages, <<HumanMessage(Query)>>, nextId)
    /\ nextId' = nextId + 1
    /\ pc' = edge("START")
    /\ steps' = steps + 1
    /\ UNCHANGED <<status, decision, lastInput, lastResponse, invokes, done,
                   final_messages, output, nextCall, dirValid, dirEntries>>
    /\ UNCHANGED lockVars

\* call_model returns, and the conditional edge (router) picks the next node.
\* MaxMsgs bounds the conversation: the response and its tool results must fit.
call_model ==
    /\ pc = "AGENT" /\ status = "running"
    /\ \E r \in ModelResponses :
        LET response == AIMessage(r.content, WithIds(r.calls, nextCall), nextId + 1)
            merged == add_messages(messages, <<response>>, nextId + 1)
        IN  /\ Len(messages) + 1 + Len(r.calls) <= MaxMsgs
            /\ lastInput' = call_model_input(messages)
            /\ lastResponse' = response
            /\ messages' = merged
            /\ final_messages' = Append(final_messages, response)
            /\ decision' = router(merged)
            /\ pc' = NodeOf(router(merged))
            /\ nextCall' = nextCall + Len(r.calls)
    /\ invokes' = invokes + 1
    /\ nextId' = nextId + 1
    /\ steps' = steps + 1
    /\ done' = <<>>
    /\ UNCHANGED <<status, output, dirValid, dirEntries>>
    /\ UNCHANGED lockVars

call_model_raises_recorded ==
    /\ pc = "AGENT" /\ status = "running"
    /\ Len(messages) < MaxMsgs
    /\ lastInput' = call_model_input(messages)
    /\ invokes' = invokes + 1
    /\ status' = "failed"
    /\ messages' = Append(messages, AIMessage(<<"Error", "calling", "model">>, <<>>, nextId + 1))
    /\ nextId' = nextId + 1
    /\ UNCHANGED <<pc, steps, decision, lastResponse, done,
                   final_messages, output, nextCall, dirValid, dirEntries>>
    /\ UNCHANGED lockVars

\* model.invoke raises inside call_model: nothing catches it up to run_agent's caller
call_model_raises ==
    /\ pc = "AGENT" /\ status = "running"
    /\ Len(messages) < MaxMsgs
    /\ lastInput' = call_model_input(messages)
    /\ invokes' = invokes + 1
    /\ status' = "failed"
    /\ UNCHANGED <<pc, steps, messages, decision, lastResponse, done,
                   final_messages, output, nextId, nextCall, dirValid, dirEntries>>
    /\ UNCHANGED lockVars

\* ToolNode: one tool call completes (the calls of one message run concurrently)
tool_call(i) ==
    /\ pc = "TOOLS" /\ status = "running"
    /\ i \in DOMAIN PendingCalls
    /\ \A k \in DOMAIN done : done[k].idx # i
    /\ \E raised \in BOOLEAN :
        done' = Append(done, [idx |-> i,
                              failed |-> raised \/ PendingCalls[i].name \notin tools,
                              content |-> RunTool(PendingCalls[i], dirValid, dirEntries, raised)])
    /\ UNCHANGED <<pc, status, steps, messages, decision, lastInput, lastResponse,
                   invokes, final_messages, output, nextId, nextCall, dirValid, dirEntries>>
    /\ UNCHANGED lockVars

\* ToolNode returns its messages; tools -> agent
tool_node ==
    /\ pc = "TOOLS" /\ status = "running"
    /\ Len(done) = Len(PendingCalls)
    /\ LET outputs == ToolNodeOutputs(PendingCalls, done)
       IN  /\ messages' = add_messages(messages, outputs, nextId)
           /\ final_messages' = final_messages \o outputs
           /\ nextId' = nextId + Unassigned(outputs)
    /\ pc' = edge("TOOLS")
    /\ steps' = steps + 1
    /\ UNCHANGED <<status, decision, lastInput, lastResponse, invokes, done, output,
                   nextCall, dirValid, dirEntries>>
    /\ UNCHANGED lockVars

\* summarize_results returns; summarize -> END
summarize_results ==
    /\ pc = "SUMMARIZE" /\ status = "running"
    /\ \E r \in SummaryResponses :
        LET response == AIMessage(r.content, WithIds(r.calls, nextCall), nextId + 1)
        IN  /\ lastInput' = summarize_input(messages)
            /\ lastResponse' = response
            /\ messages' = add_messages(messages, <<response>>, nextId + 1)
            /\ final_messages' = Append(final_messages, response)
            /\ nextCall' = nextCall + Len(r.calls)
    /\ invokes' = invokes + 1
    /\ nextId' = nextId + 1
    /\ pc' = edge("SUMMARIZE")
    /\ steps' = steps + 1
    /\ UNCHANGED <<status, decision, done, output, dirValid, dirEntries>>
    /\ UNCHANGED lockVars

\* model.invoke raises inside summarize_results
summarize_results_raises ==
    /\ pc = "SUMMARIZE" /\ status = "running"
    /\ lastInput' = summarize_input(messages)
    /\ invokes' = invokes + 1
    /\ status' = "failed"
    /\ UNCHANGED <<pc, steps, messages, decision, lastResponse, done,
                   final_messages, output, nextId, nextCall, dirValid, dirEntries>>
    /\ UNCHANGED lockVars

\* run_agent: the stream is exhausted, the last collected message is the output
run_agent ==
    /\ pc = "END" /\ status = "running"
    /\ output' = IF final_messages # <<>>
                 THEN final_messages[Len(final_messages)].content
                 ELSE <<"No", "response", "generated">>
    /\ status' = "done"
    /\ UNCHANGED <<pc, steps, messages, decision, lastInput, lastResponse, invokes,
                   done, final_messages, nextId, nextCall, dirValid, dirEntries>>
    /\ UNCHANGED lockVars

Next ==
    \/ Start
    \/ call_model
    \/ call_model_raises
    \/ \E i \in 1..MaxCalls : tool_call(i)
    \/ tool_node
    \/ summarize_results
    \/ summarize_results_raises
    \/ run_agent

Spec == Init /\ [][Next]_vars

TypeOK ==
    /\ pc \in {"START", "AGENT", "TOOLS", "SUMMARIZE", "END"}
    /\ status \in {"running", "failed", "done"}
    /\ dirValid \in BOOLEAN /\ dirEntries \subseteq {"app.log", "notes.txt"}
    /\ decision \in {"none", "tools", "agent", "summarize"}

-----------------------------------------------------------------------------
(* router as a function of the conversation alone *)

RouterContents ==
    { <<>>, <<"no", "crash", "found">>, <<"Traceback">>,
      <<"found", "a", "Traceback", "in", "app.log">>, <<"no", "traceback">> }

Fillers == { AIMessage(<<"thinking">>, <<>>, 0), ToolMessage(<<"[", "app.log", "]">>, 1) }

Conversation(n, filler, last) ==
    AssignIds([i \in 1..n |-> IF i = n THEN last
                              ELSE IF i = 1 THEN HumanMessage(Query)
                              ELSE filler], 0)

RouterInputs ==
    { Conversation(n, f, AIMessage(c, WithIds(cs, 0), 0)) :
        n \in 1..MaxConv, f \in Fillers, c \in RouterContents, cs \in CallSeqs }

RouterInit ==
    /\ pc = "AGENT" /\ status = "running" /\ steps = 0
    /\ messages \in RouterInputs
    /\ decision = "none"
    /\ lastInput = <<>> /\ lastResponse = NoMessage /\ invokes = 0 /\ done = <<>>
    /\ final_messages = <<>> /\ output = NoOutput /\ nextId = 0 /\ nextCall = 0
    /\ dirValid = TRUE /\ dirEntries = {"app.log"}
    /\ LockIdle

route ==
    /\ decision = "none"
    /\ decision' = router(messages)
    /\ UNCHANGED <<pc, status, steps, messages, lastInput, lastResponse, invokes, done,
                   final_messages, output, nextId, nextCall, dirValid, dirEntries>>
    /\ UNCHANGED lockVars

RouterNext == route

RouterSpec == RouterInit /\ [][RouterNext]_vars

LastMsg == messages[Len(messages)]

-----------------------------------------------------------------------------
(* run_evaluation: the lock file /tmp/log_analyzer_eval.lock *)

Procs == 1..NumProcs

LockInit ==
    /\ GraphInit
    /\ dirValid = TRUE /\ dirEntries = {"app.log"}
    /\ LockIdle

\* lock_file = open(lock_path, "w"): opens the file the path names, creating it if absent
lock_open(p) ==
    /\ lpc[p] = "idle"
    /\ IF pathInode = 0
       THEN /\ nextInode < MaxInodes
            /\ nextInode' = nextInode + 1
            /\ pathInode' = nextInode + 1
            /\ fd' = [fd EXCEPT ![p] = nextInode + 1]
       ELSE /\ fd' = [fd EXCEPT ![p] = pathInode]
            /\ UNCHANGED <<pathInode, nextInode>>
    /\ lpc' = [lpc EXCEPT ![p] = "opened"]
    /\ UNCHANGED flockOwner
    /\ UNCHANGED graphVars

\* fcntl.flock(lock_file, LOCK_EX | LOCK_NB) succeeds: _run_evaluation_inner starts
lock_acquire(p) ==
    /\ lpc[p] = "opened"
    /\ flockOwner[fd[p]] = 0
    /\ flockOwner' = [flockOwner EXCEPT ![fd[p]] = p]
    /\ lpc' = [lpc EXCEPT ![p] = "inner"]
    /\ UNCHANGED <<fd, pathInode, nextInode>>
    /\ UNCHANGED graphVars

lock_refused_cleans_up(p) ==
    /\ lpc[p] = "opened"
    /\ flockOwner[fd[p]] # 0
    /\ flockOwner' = [flockOwner EXCEPT ![fd[p]] = 0]
    /\ pathInode' = 0
    /\ fd' = [fd EXCEPT ![p] = 0]
    /\ lpc' = [lpc EXCEPT ![p] = "refused"]
    /\ UNCHANGED nextInode
    /\ UNCHANGED graphVars

\* BlockingIOError: message, lock_file.close(), return
lock_refused(p) ==
    /\ lpc[p] = "opened"
    /\ flockOwner[fd[p]] # 0
    /\ fd' = [fd EXCEPT ![p] = 0]
    /\ lpc' = [lpc EXCEPT ![p] = "refused"]
    /\ UNCHANGED <<pathInode, flockOwner, nextInode>>
    /\ UNCHANGED graphVars

\* _run_evaluation_inner returns or raises; finally: fcntl.flock(lock_file, LOCK_UN)
lock_release(p) ==
    /\ lpc[p] = "inner"
    /\ flockOwner' = [flockOwner EXCEPT ![fd[p]] = 0]
    /\ lpc' = [lpc EXCEPT ![p] = "unlocked"]
    /\ UNCHANGED <<fd, pathInode, nextInode>>
    /\ UNCHANGED graphVars

\* finally: lock_file.close()
lock_close(p) ==
    /\ lpc[p] = "unlocked"
    /\ fd' = [fd EXCEPT ![p] = 0]
    /\ lpc' = [lpc EXCEPT ![p] = "closed"]
    /\ UNCHANGED <<pathInode, flockOwner, nextInode>>
    /\ UNCHANGED graphVars

\* finally: lock_path.unlink(missing_ok=True)
lock_unlink(p) ==
    /\ lpc[p] = "closed"
    /\ pathInode' = 0
    /\ lpc' = [lpc EXCEPT ![p] = "finished"]
    /\ UNCHANGED <<fd, flockOwner, nextInode>>
    /\ UNCHANGED graphVars

\* the evaluation is started again later
run_evaluation_again(p) ==
    /\ lpc[p] \in {"refused", "finished"}
    /\ lpc' = [lpc EXCEPT ![p] = "idle"]
    /\ UNCHANGED <<fd, pathInode, flockOwner, nextInode>>
    /\ UNCHANGED graphVars

LockNext ==
    \E p \in Procs :
        \/ lock_open(p)
        \/ lock_acquire(p)
        \/ lock_refused(p)
        \/ lock_release(p)
        \/ lock_close(p)
        \/ lock_unlink(p)
        \/ run_evaluation_again(p)

LockSpec == LockInit /\ [][LockNext]_vars

InCritical(p) == lpc[p] = "inner"

-----------------------------------------------------------------------------
(* The reducer of AgentState.messages applied to the update of one node *)

ReducerConversations ==
    { Conversation(n, f, AIMessage(c, <<>>, 0)) :
        n \in 1..MaxLeft, f \in Fillers, c \in ModelContents }

\* what a node returns under "messages": call_model and summarize_results one
\* response with the id the backend gave it, the tool node id-less ToolMessages
NodeUpdates(msgs) ==
    { <<AIMessage(r.content, WithIds(r.calls, 0), i)>> :
        r \in ModelResponses, i \in 1..(Len(msgs) + 1) }
    \cup { [k \in 1..n |-> ToolMessage(<<"[", "app.log", "]">>, k)] : n \in 1..MaxCalls }

ReducerInit ==
    /\ pc = "AGENT" /\ status = "running" /\ steps = 0
    /\ messages \in ReducerConversations
    /\ nextId = Len(messages)
    /\ decision = "none"
    /\ lastInput = <<>> /\ lastResponse = NoMessage /\ invokes = 0 /\ done = <<>>
    /\ final_messages = <<>> /\ output = NoOutput /\ nextCall = 0
    /\ dirValid = TRUE /\ dirEntries = {"app.log"}
    /\ LockIdle

\* the graph writes the node's update through add_messages; run_agent collects it
apply_update ==
    /\ final_messages = <<>>
    /\ \E u \in NodeUpdates(messages) :
        /\ messages' = add_messages(messages, u, nextId)
        /\ final_messages' = u
        /\ nextId' = IF u[1].id = 0 THEN nextId + Unassigned(u)
                     ELSE IF u[1].id > nextId THEN u[1].id ELSE nextId
    /\ steps' = steps + 1
    /\ UNCHANGED <<pc, status, decision, lastInput, lastResponse, invokes, done,
                   output, nextCall, dirValid, dirEntries>>
    /\ UNCHANGED lockVars

ReducerNext == apply_update

ReducerSpec == ReducerInit /\ [][ReducerNext]_vars

IsPrefix(a, b) == Len(a) <= Len(b) /\ SubSeq(b, 1, Len(a)) = a

Ids(msgs) == { msgs[i].id : i \in DOMAIN msgs }

-----------------------------------------------------------------------------
(* The two tools called through the tool node, on arbitrary arguments *)

Filenames == { "app.log", "missing.log", "../secret.txt", "../logs/app.log", "/etc/passwd", "" }
LastNValues == { -1, 0, 2, DefaultLastN }

ToolCalls ==
    { [name |-> "list_log_files", filename |-> "", last_n_lines |-> DefaultLastN],
      [name |-> "delete_logs", filename |-> "", last_n_lines |-> DefaultLastN] }
    \cup { [name |-> "read_log_file", filename |-> f, last_n_lines |-> n] :
             f \in Filenames, n \in LastNValues }

\* the state in which the agent has just asked for one tool call
ToolInit ==
    /\ \E c \in ToolCalls :
          LET human == [HumanMessage(Query) EXCEPT !.id = 1]
              response == AIMessage(CallingContent, WithIds(<<c>>, 0), 2)
          IN  /\ messages = <<human, response>>
              /\ lastInput = call_model_input(<<human>>)
              /\ lastResponse = response
              /\ final_messages = <<response>>
    /\ pc = "TOOLS" /\ status = "running" /\ steps = 2
    /\ decision = "tools" /\ invokes = 1 /\ done = <<>>
    /\ output = NoOutput /\ nextId = 2 /\ nextCall = 1
    /\ dirValid \in BOOLEAN
    /\ dirEntries \in (IF dirValid THEN SUBSET {"app.log", "notes.txt"} ELSE {{}})
    /\ LockIdle

ToolNext ==
    \/ \E i \in 1..MaxCalls : tool_call(i)
    \/ tool_node

ToolSpec == ToolInit /\ [][ToolNext]_vars

\* the tool call behind the k-th completed result
CallOf(k) ==
    (IF pc = "TOOLS" THEN PendingCalls
     ELSE messages[Len(messages) - Len(done)].tool_calls)[done[k].idx]

-----------------------------------------------------------------------------
(* The summarizer on a conversation without tool calls *)

SummarizerConversations ==
    { AssignIds(<<HumanMessage(Query)>>, 0) }
    \cup { Conversation(n, AIMessage(<<"thinking">>, <<>>, 0), AIMessage(c, <<>>, 0)) :
             n \in 2..MaxLeft, c \in ModelContents }

SummarizerInit ==
    /\ pc = "SUMMARIZE" /\ status = "running" /\ steps = 0
    /\ messages \in SummarizerConversations
    /\ nextId = Len(messages)
    /\ decision = "summarize"
    /\ lastInput = <<>> /\ lastResponse = NoMessage /\ invokes = 0 /\ done = <<>>
    /\ final_messages = <<>> /\ output = NoOutput /\ nextCall = 0
    /\ dirValid = TRUE /\ dirEntries = {"app.log"}
    /\ LockIdle

SummarizerNext ==
    \/ summarize_results
    \/ summarize_results_raises
    \/ run_agent

SummarizerSpec == SummarizerInit /\ [][SummarizerNext]_vars

\* the four headings of the report (main.py:72-78)
Headings ==
    << <<"###", "Conclusion">>, <<"###", "1.", "Root", "Cause">>,
       <<"###", "2.", "Timestamp">>, <<"###", "3.", "Suggested", "Fix">> >>

MatchAt(text, pat, i) ==
    /\ i >= 1 /\ i + Len(pat) - 1 <= Len(text)
    /\ SubSeq(text, i, i + Len(pat) - 1) = pat

\* re-parsing: the first heading opens the text, each next one follows the one before
RECURSIVE ParseFrom(_, _, _)
ParseFrom(text, h, from) ==
    IF h > Len(Headings) THEN TRUE
    ELSE LET hits == { i \in from..Len(text) : MatchAt(text, Headings[h], i) }
         IN  IF hits = {} THEN FALSE
             ELSE LET first == CHOOSE i \in hits : \A j \in hits : i <= j
                  IN  ParseFrom(text, h + 1, first + Len(Headings[h]))

ParsesAsReport(text) == MatchAt(text, Headings[1], 1) /\ ParseFrom(text, 2, Len(Headings[1]) + 1)

-----------------------------------------------------------------------------
(* Properties *)

Transitions ==
    { <<"START", "AGENT">>, <<"AGENT", "TOOLS">>, <<"AGENT", "AGENT">>,
      <<"AGENT", "SUMMARIZE">>, <<"TOOLS", "AGENT">>, <<"SUMMARIZE", "END">> }

\* C1: every step that completes a node (or changes the current node) takes one
\* of the six transitions; out of AGENT it is the one the router returned, out
\* of TOOLS it is AGENT, and END is entered from SUMMARIZE only.
C1_Transitions ==
    [][(pc' # pc \/ steps' # steps) =>
          /\ <<pc, pc'>> \in Transitions
          /\ (pc = "AGENT" => pc' = NodeOf(decision'))]_vars

\* a finished run that went AGENT -> AGENT, AGENT -> TOOLS -> AGENT and AGENT -> SUMMARIZE -> END
C1_Witness ==
    /\ pc = "END"
    /\ \E i \in DOMAIN messages : messages[i].type = "tool"
    /\ \E i \in 1..(Len(messages) - 2) :
          /\ messages[i].type = "ai" /\ messages[i].tool_calls = <<>>
          /\ messages[i + 1].type = "ai"

\* C2: a latest Assistant message with tool calls is routed to TOOLS, whatever
\* its content and whatever the conversation length.
C2_ToolCallsRouteToTools ==
    (decision # "none" /\ LastMsg.type = "ai" /\ LastMsg.tool_calls # <<>>)
        => decision = "tools"

C2_Witness ==
    /\ decision = "tools"
    /\ Contains(LastMsg.content, "Traceback")
    /\ Len(messages) >= RoundCap

\* C3: no tool calls, content containing "Traceback" and fewer than 6 messages
\* are routed to AGENT.
C3_TracebackBelowCapRoutesToAgent ==
    (/\ decision # "none"
     /\ LastMsg.type = "ai" /\ LastMsg.tool_calls = <<>>
     /\ Contains(LastMsg.content, "Traceback")
     /\ Len(messages) < 6)
        => decision = "agent"

C3_Witness ==
    /\ decision = "agent"
    /\ Len(messages) = 5
    /\ LastMsg.content = <<"found", "a", "Traceback", "in", "app.log">>

\* C4: no tool calls, and either no "Traceback" in the content or 6 or more
\* messages, are routed to SUMMARIZE.
C4_OtherwiseRoutesToSummarize ==
    (/\ decision # "none"
     /\ LastMsg.type = "ai" /\ LastMsg.tool_calls = <<>>
     /\ (~Contains(LastMsg.content, "Traceback") \/ Len(messages) >= 6))
        => decision = "summarize"

C4_Witness ==
    /\ decision = "summarize"
    /\ Contains(LastMsg.content, "Traceback")
    /\ Len(messages) = 6

\* the tool results of the latest TOOLS step and the message they answer
ResultCount == Len(done)
AnsweredMsg == messages[Len(messages) - ResultCount]
ResultMsg(i) == messages[Len(messages) - ResultCount + i]
CompletedAs(i) == done[CHOOSE k \in DOMAIN done : done[k].idx = i]

\* C5: after a TOOLS step on an Assistant message with N tool calls, the last N
\* messages are ToolResults, the i-th carrying the id and the handler result of
\* the i-th call, whatever the order in which the handlers completed.
C5_ResultsInCallOrder ==
    (pc = "AGENT" /\ done # <<>>) =>
        /\ Len(messages) > ResultCount
        /\ AnsweredMsg.type = "ai"
        /\ Len(AnsweredMsg.tool_calls) = ResultCount
        /\ \A i \in 1..ResultCount :
              /\ ResultMsg(i).type = "tool"
              /\ ResultMsg(i).tool_call_id = AnsweredMsg.tool_calls[i].id
              /\ ResultMsg(i).content = CompletedAs(i).content

\* two calls whose handlers completed in the opposite order
C5_Witness ==
    /\ pc = "AGENT"
    /\ Len(done) = 2
    /\ done[1].idx = 2
    /\ done[1].content # done[2].content
    /\ ResultMsg(1).type = "tool"

\* C6: at most one process is inside _run_evaluation_inner.
C6_MutualExclusion ==
    \A p, q \in Procs : (InCritical(p) /\ InCritical(q)) => p = q

\* C7: a failing handler or an unregistered tool name does not stop the run:
\* the TOOLS step never fails, and after it the call has a ToolResult whose
\* content is an error text, with AGENT the next node.
C7_ToolFailureBecomesResult ==
    /\ (pc = "TOOLS" => status = "running")
    /\ (done # <<>> /\ pc # "TOOLS") =>
          /\ pc = "AGENT" /\ status \in {"running", "failed"}
          /\ \A k \in DOMAIN done : done[k].failed =>
                /\ ResultMsg(done[k].idx).type = "tool"
                /\ ResultMsg(done[k].idx).tool_call_id = AnsweredMsg.tool_calls[done[k].idx].id
                /\ Contains(ResultMsg(done[k].idx).content, "Error")

\* one handler raised, one tool name was unknown, and the run is at AGENT
C7_Witness ==
    /\ pc = "AGENT" /\ status = "running"
    /\ Len(done) = 2
    /\ \E k \in DOMAIN done :
          /\ done[k].failed
          /\ AnsweredMsg.tool_calls[done[k].idx].name = "read_log_file"
    /\ \E k \in DOMAIN done : AnsweredMsg.tool_calls[done[k].idx].name \notin tools

\* C8: a failing backend call ends the run where it is: no message is
\* appended, no node is entered, nothing is returned, and from then on nothing
\* happens (no retry).
C8_ModelFailureIsFatal ==
    [][/\ (status = "running" /\ status' = "failed") =>
             /\ pc \in {"AGENT", "SUMMARIZE"}
             /\ invokes' = invokes + 1
             /\ messages' = messages
             /\ final_messages' = final_messages
             /\ pc' = pc /\ steps' = steps
             /\ output' = NoOutput
       /\ status = "failed" =>
             /\ status' = "failed"
             /\ invokes' = invokes
             /\ messages' = messages
             /\ pc' = pc /\ steps' = steps
             /\ output' = NoOutput]_vars

C8_Witness ==
    /\ status = "failed"
    /\ pc = "SUMMARIZE"
    /\ invokes >= 2
    /\ output = NoOutput
    /\ messages[Len(messages)].type = "ai"

\* C9: every backend invocation gets a sequence whose first message is the
\* system instruction and that holds exactly one System message.
C9_SystemMessageFirst ==
    invokes > 0 =>
        /\ lastInput[1] = SYSTEM_PROMPT
        /\ Cardinality({i \in DOMAIN lastInput : lastInput[i].type = "system"}) = 1

IsSummaryPrompt(m) == m.type = "human" /\ m.content = summary_prompt.content

\* C10 as stated: at END the conversation holds the synthetic instruction,
\* directly before the backend's response.
C10_InstructionInConversation ==
    pc = "END" =>
        /\ Len(messages) >= 2
        /\ IsSummaryPrompt(messages[Len(messages) - 1])
        /\ messages[Len(messages)] = lastResponse

\* C10 amended: SUMMARIZE gives the backend the conversation followed by the
\* synthetic instruction, which is not stored in the conversation; it invokes
\* the backend once and appends the response only, which is the last message
\* at END and the output returned to the caller.
C10_SummarizeAmended ==
    /\ [](pc = "END" =>
            /\ lastInput = SubSeq(messages, 1, Len(messages) - 1) \o <<summary_prompt>>
            /\ messages[Len(messages)] = lastResponse
            /\ \A i \in DOMAIN messages : ~IsSummaryPrompt(messages[i])
            /\ (status = "done" => output = lastResponse.content))
    /\ [][(pc = "SUMMARIZE" /\ pc' = "END") =>
            /\ invokes' = invokes + 1
            /\ Len(messages') = Len(messages) + 1]_vars

C10_Witness ==
    /\ pc = "END" /\ status = "done"
    /\ output = lastResponse.content
    /\ Len(messages) >= 4
    /\ IsSummaryPrompt(lastInput[Len(lastInput)])

AnswersCallAt(j, i) ==
    /\ i < j
    /\ messages[i].type = "ai"
    /\ \E c \in DOMAIN messages[i].tool_calls :
          messages[i].tool_calls[c].id = messages[j].tool_call_id

\* C12: every ToolResult in the conversation comes after an Assistant message
\* with a ToolCall of the same id, and no earlier ToolResult answers that id.
C12_ResultAnswersOpenCall ==
    \A j \in DOMAIN messages :
        messages[j].type = "tool" =>
            /\ \E i \in DOMAIN messages : AnswersCallAt(j, i)
            /\ \A k \in 1..(j - 1) :
                  messages[k].type = "tool" =>
                      messages[k].tool_call_id # messages[j].tool_call_id

\* two TOOLS steps, the first with two calls
C12_Witness ==
    /\ Len(messages) >= 6
    /\ messages[2].type = "ai" /\ Len(messages[2].tool_calls) = 2
    /\ messages[3].type = "tool" /\ messages[4].type = "tool"
    /\ messages[5].type = "ai"
    /\ messages[6].type = "tool"

\* every response of the run so far carried at least one tool call
AllCalling ==
    \A i \in DOMAIN messages : messages[i].type = "ai" => messages[i].tool_calls # <<>>

C14_ReadsOnlyInsideLogDir ==
    \A k \in DOMAIN done :
        CallOf(k).name = "read_log_file" =>
            \/ Contains(done[k].content, "Error")
            \/ InsideLogDir(ReadTarget(CallOf(k).filename, dirValid))

\* C15: read_log_file called with the name of a file that is not in the log
\* directory returns a text holding the word "Error" and the given filename;
\* and for every filename and every last_n_lines value a failure inside the
\* handler comes back as an error text, the run going on.
C15_MissingFileIsErrorString ==
    \A k \in DOMAIN done :
        LET c == CallOf(k)
        IN  c.name = "read_log_file" =>
              /\ status = "running"
              /\ (PlainName(c.filename) /\ (~dirValid \/ c.filename \notin dirEntries)) =>
                    /\ Contains(done[k].content, "Error")
                    /\ Contains(done[k].content, c.filename)
              /\ (\/ done[k].failed
                  \/ c.last_n_lines < 0
                  \/ ReadTarget(c.filename, dirValid) \notin Files(dirValid, dirEntries)) =>
                    Contains(done[k].content, "Error")

C15_Witness ==
    /\ pc = "AGENT" /\ Len(done) = 1 /\ ~done[1].failed
    /\ dirValid /\ dirEntries = {"app.log"}
    /\ messages[2].tool_calls[1].name = "read_log_file"
    /\ messages[2].tool_calls[1].filename = "missing.log"
    /\ messages[3].type = "tool"
    /\ Contains(messages[3].content, "Error")
    /\ Contains(messages[3].content, "missing.log")

\* a list of exactly one element, an error text, as the tool node renders it
OneErrorElement(content) ==
    /\ Len(content) >= 3
    /\ content[1] = "[" /\ content[2] = "Error" /\ content[Len(content)] = "]"
    /\ ~Contains(content, ",")

\* C16: list_log_files returns an empty sequence when the log directory exists
\* and holds no matching file, and a sequence of exactly one element, an error
\* text, when the configured directory is missing or not a directory; a failure
\* inside the handler also comes back as one error text, the run going on.
C16_ListEmptyOrOneError ==
    \A k \in DOMAIN done :
        CallOf(k).name = "list_log_files" =>
            /\ status = "running"
            /\ (dirValid /\ ~done[k].failed /\ \A e \in dirEntries : e \notin LogNames) =>
                  done[k].content = <<"[", "]">>
            /\ ~dirValid => OneErrorElement(done[k].content)
            /\ done[k].failed => OneErrorElement(done[k].content)

C16_Witness ==
    /\ pc = "AGENT" /\ Len(done) = 1 /\ ~done[1].failed
    /\ dirValid /\ dirEntries = {"notes.txt"}
    /\ messages[2].tool_calls[1].name = "list_log_files"
    /\ messages[3].type = "tool"
    /\ messages[3].content = <<"[", "]">>

\* C17: for a conversation with zero tool calls fed directly to the summarizer
\* and any non-empty model response text, the final message begins with the
\* heading "### Conclusion" and holds "### 1. Root Cause", "### 2. Timestamp"
\* and "### 3. Suggested Fix" in that order, so re-parsing the headings succeeds.
C17_SummaryParses ==
    (pc = "END" /\ messages[Len(messages)].content # <<>>) =>
        /\ ParsesAsReport(messages[Len(messages)].content)
        /\ (status = "done" => ParsesAsReport(output))

\* C18: a run_evaluation call that fails to acquire the lock returns without
\* entering _run_evaluation_inner and leaves the lock untouched: the step
\* releases no lock and unlinks no file, changes nothing of the other runs, the
\* holder stays inside _run_evaluation_inner with its lock, and a run that has
\* opened the same lock file is still refused.
C18_RefusedLeavesLockUntouched ==
    [][\A p \in Procs :
          /\ (lpc[p] = "opened" /\ lpc'[p] = "refused") =>
                /\ flockOwner[fd[p]] \notin {0, p}
                /\ flockOwner' = flockOwner
                /\ pathInode' = pathInode
                /\ nextInode' = nextInode
                /\ fd'[p] = 0
                /\ \A q \in Procs \ {p} : lpc'[q] = lpc[q] /\ fd'[q] = fd[q]
                /\ LET holder == flockOwner[fd[p]]
                   IN  lpc'[holder] = "inner" /\ flockOwner'[fd[p]] = holder
                /\ \A q \in Procs :
                      (lpc'[q] = "opened" /\ fd'[q] = fd[p]) => flockOwner'[fd'[q]] \notin {0, q}
          /\ lpc[p] = "refused" => lpc'[p] \in {"refused", "idle"}]_vars

C18_Witness ==
    \E p, h \in Procs :
        /\ lpc[p] = "refused" /\ fd[p] = 0
        /\ InCritical(h) /\ pathInode # 0 /\ flockOwner[pathInode] = h
        /\ \E q \in Procs \ {p, h} : lpc[q] = "opened" /\ fd[q] = pathInode

\* no message of the conversation carries a tool call
NoCalls == \A i \in DOMAIN messages : messages[i].tool_calls = <<>>

\* how often AGENT has been entered in a run without tool calls: once per
\* response of call_model, once more while AGENT is the pending node
AgentEntries ==
    Cardinality({ i \in DOMAIN messages : messages[i].type = "ai" })
    + (IF pc = "AGENT" THEN 1 ELSE 0) - (IF pc = "END" THEN 1 ELSE 0)

\* C19: the traceback-retry branch is bounded by the round cap: in a run seeded
\* with one Human message in which the model never emits a tool call, AGENT is
\* entered at most 5 times, AGENT is never the next node once the conversation
\* holds 6 messages, and the run is at END after at most 7 steps, the next
\* step being possible whenever the run is at AGENT or SUMMARIZE.
C19_RetryBounded ==
    (pc # "START" /\ NoCalls) =>
        /\ messages[1].type = "human"
        /\ AgentEntries <= RoundCap - 1
        /\ (pc = "AGENT" => Len(messages) < RoundCap)
        /\ (Len(messages) >= RoundCap => pc \in {"SUMMARIZE", "END"})
        /\ steps <= RoundCap + 1
        /\ (pc = "SUMMARIZE" => decision = "summarize")
        /\ (pc = "END" => /\ decision = "summarize"
                          /\ steps = AgentEntries + 2
                          /\ messages[Len(messages)].type = "ai")
        /\ ((status = "running" /\ pc = "AGENT") => ENABLED call_model)
        /\ ((status = "running" /\ pc = "SUMMARIZE") => ENABLED summarize_results)
        /\ ((status = "running" /\ pc = "END") => ENABLED run_agent)

C19_Witness ==
    /\ NoCalls /\ pc = "END" /\ status = "done"
    /\ Len(messages) = RoundCap + 1
    /\ AgentEntries = RoundCap - 1
    /\ \A i \in 2..RoundCap : Contains(messages[i].content, "Traceback")

====
